---------------------------- MODULE Spec2Model ----------------------------
(***************************************************************************)
(* Model of src/lambda/ec2_status_logger.py: lambda_handler lists the EC2  *)
(* instances of the account and writes a timestamped text report to S3.    *)
(*                                                                         *)
(* Python str values are sequences of one-character strings, bytes values  *)
(* are sequences of byte codes, dicts are functions whose DOMAIN is the    *)
(* set of keys present.  The two boto3 clients are the collaborators: the  *)
(* EC2 account state (inventory), the S3 object store (s3objects) and the  *)
(* record of the calls each invocation made on them (calls).               *)
(***************************************************************************)
EXTENDS Integers, Sequences, FiniteSets

(* ------------------------------ bounds -------------------------------- *)

\* concurrent invocations of the handler
NumInvocations == 2
\* reservations in one describe_instances response
MaxReservations == 2
\* instance descriptors in one reservation
MaxInstances == 2
\* the clock runs from tick 0 to tick MaxClock
MaxClock == 2
\* clock ticks per second: instants the %S field cannot tell apart
TicksPerSecond == 2

Procs == 1..NumInvocations

(* --------------------------- str and bytes ----------------------------- *)

Digits == <<"0", "1", "2", "3", "4", "5", "6", "7", "8", "9">>

Lower == <<"a", "b", "c", "d", "e", "f", "g", "h", "i", "j", "k", "l", "m",
           "n", "o", "p", "q", "r", "s", "t", "u", "v", "w", "x", "y", "z">>

IndexOf(c, tab) == CHOOSE i \in 1..Len(tab) : tab[i] = c

InTable(c, tab) == \E i \in 1..Len(tab) : tab[i] = c

\* the code point of a character (all of them below 128)
Ord(c) ==
    IF InTable(c, Digits) THEN 47 + IndexOf(c, Digits)
    ELSE IF InTable(c, Lower) THEN 96 + IndexOf(c, Lower)
    ELSE CASE c = "\n" -> 10
           [] c = " "  -> 32
           [] c = "-"  -> 45
           [] c = "."  -> 46
           [] c = "/"  -> 47
           [] c = ":"  -> 58
           [] c = "T"  -> 84
           [] c = "Z"  -> 90
           [] c = "_"  -> 95

\* str.encode("utf-8"): one byte per character below 128
EncodeUtf8(s) == [i \in 1..Len(s) |-> Ord(s[i])]

RECURSIVE Join(_, _)
\* sep.join(lines)
Join(sep, ls) ==
    IF ls = <<>> THEN <<>>
    ELSE IF Len(ls) = 1 THEN ls[1]
    ELSE ls[1] \o sep \o Join(sep, Tail(ls))

(* ------------------------------ the clock ------------------------------ *)

\* second of the day of tick 0: 12:00:00 on 2024-03-01
EpochSecond == 12 * 3600

\* datetime.now(timezone.utc) at clock tick c
UtcNow(c) ==
    LET secs == EpochSecond + (c \div TicksPerSecond)
    IN  [year |-> 2024, month |-> 3, day |-> 1 + (secs \div 86400),
         hour |-> (secs % 86400) \div 3600,
         minute |-> (secs % 3600) \div 60,
         second |-> secs % 60,
         microsecond |-> (c % TicksPerSecond) * (1000000 \div TicksPerSecond)]

\* %m, %d, %H, %M, %S: two digits, zero padded
Pad2(n) == <<Digits[((n \div 10) % 10) + 1], Digits[(n % 10) + 1]>>

\* %Y: four digits
Pad4(n) == Pad2(n \div 100) \o Pad2(n % 100)

\* mutant of Strftime: the ISO format, "%Y-%m-%dT%H:%M:%SZ"
StrftimeWithColons(dt) ==
    Pad4(dt.year) \o <<"-">> \o Pad2(dt.month) \o <<"-">> \o Pad2(dt.day)
    \o <<"T">> \o Pad2(dt.hour) \o <<":">> \o Pad2(dt.minute) \o <<":">>
    \o Pad2(dt.second) \o <<"Z">>

\* dt.strftime("%Y-%m-%dT%H-%M-%SZ")
Strftime(dt) ==
    Pad4(dt.year) \o <<"-">> \o Pad2(dt.month) \o <<"-">> \o Pad2(dt.day)
    \o <<"T">> \o Pad2(dt.hour) \o <<"-">> \o Pad2(dt.minute) \o <<"-">>
    \o Pad2(dt.second) \o <<"Z">>

(* ------------------------- the EC2 inventory --------------------------- *)

Id1 == <<"i", "-", "0", "0", "1">>
Id2 == <<"i", "-", "0", "0", "2">>
Running == <<"r", "u", "n", "n", "i", "n", "g">>
Stopped == <<"s", "t", "o", "p", "p", "e", "d">>

\* a dict with no key
EmptyDict == [k \in {} |-> <<>>]

\* d.get(k, default)
Get(d, k, default) == IF k \in DOMAIN d THEN d[k] ELSE default

SeqsUpTo(S, n) == UNION {[1..k -> S] : k \in 0..n}

\* instance descriptors the inventory call may answer with; the last one is
\* malformed (it has no "State")
Descriptors ==
    { [InstanceId |-> Id1, State |-> [Name |-> Running]],
      [InstanceId |-> Id1, State |-> [Name |-> Stopped]],
      [InstanceId |-> Id2, State |-> [Name |-> Stopped]],
      [InstanceId |-> Id2] }

ReservationDicts ==
    {[Instances |-> s] : s \in SeqsUpTo(Descriptors, MaxInstances)} \cup {EmptyDict}

RECURSIVE Flatten(_)
\* the instance descriptors of a reservation list, in listing order
Flatten(rs) ==
    IF rs = <<>> THEN <<>>
    ELSE Get(Head(rs), "Instances", <<>>) \o Flatten(Tail(rs))

\* instance ids are unique within a listing
UniqueIds(resp) ==
    LET f == Flatten(Get(resp, "Reservations", <<>>))
    IN  \A i, j \in 1..Len(f) : f[i].InstanceId = f[j].InstanceId => i = j

\* the responses of ec2.describe_instances()
Responses ==
    {r \in {[Reservations |-> s] : s \in SeqsUpTo(ReservationDicts, MaxReservations)}
             \cup {EmptyDict} : UniqueIds(r)}

\* the listings the concurrent specification starts from: none, one
\* reservation of two instances, the second of them well formed or not, and two
\* reservations of one instance (the single-invocation specification starts
\* from every listing)
Inventories ==
    { EmptyDict,
      [Reservations |-> <<[Instances |-> <<[InstanceId |-> Id2, State |-> [Name |-> Stopped]]>>],
                          [Instances |-> <<[InstanceId |-> Id1, State |-> [Name |-> Running]]>>]>>],
      [Reservations |-> <<[Instances |-> <<[InstanceId |-> Id1, State |-> [Name |-> Running]],
                                           [InstanceId |-> Id2, State |-> [Name |-> Stopped]]>>]>>],
      [Reservations |-> <<[Instances |-> <<[InstanceId |-> Id1, State |-> [Name |-> Running]],
                                           [InstanceId |-> Id2]>>]>>] }

\* the inventory after the running instance iid has stopped
StopInstance(inv, iid) ==
    IF "Reservations" \notin DOMAIN inv THEN inv
    ELSE [Reservations |->
            [r \in 1..Len(inv.Reservations) |->
               LET res == inv.Reservations[r]
               IN  IF "Instances" \notin DOMAIN res THEN res
                   ELSE [Instances |->
                           [i \in 1..Len(res.Instances) |->
                              IF res.Instances[i] = [InstanceId |-> iid, State |-> [Name |-> Running]]
                              THEN [InstanceId |-> iid, State |-> [Name |-> Stopped]]
                              ELSE res.Instances[i]]]]]

(* ------------------------------ the handler ---------------------------- *)

VARIABLES
    environ,        \* os.environ, restricted to LOG_BUCKET
    clock,          \* the wall clock, in ticks
    inventory,      \* what ec2.describe_instances() answers now
    s3objects,      \* the object store: <<bucket, key>> -> body
    calls,          \* per invocation: the client calls made, in order
    pc,             \* per invocation: the line it is about to execute
    bucket,         \* locals of lambda_handler, per invocation
    reservations,
    ts,
    pos,            \* the two loop positions: <<reservation, instance>>
    lines,
    body,
    key,            \* the Key argument of put_object
    retval,         \* <<>> or <<the value returned>>
    exc             \* "" or the exception that ended the invocation

vars == <<environ, clock, inventory, s3objects, calls, pc, bucket, reservations,
          ts, pos, lines, body, key, retval, exc>>

locals == <<bucket, reservations, ts, pos, lines, body, key>>

\* the exceptions that can leave lambda_handler
KeyError == "KeyError"
DescribeError == "ClientError(DescribeInstances)"
PutError == "ClientError(PutObject)"

LogBucket == "ec2-status-logs"

Sep == <<" ", "-", " ">>
NoInstances == <<"n", "o", " ", "i", "n", "s", "t", "a", "n", "c", "e", "s", " ",
                 "f", "o", "u", "n", "d">>
KeyPrefix == <<"l", "o", "g", "s", "/", "e", "c", "2", "_", "s", "t", "a", "t",
               "u", "s", "_">>
KeySuffix == <<".", "t", "x", "t">>
Newline == <<"\n">>

\* no invocation has started; the account's listing is one of invs
Start(invs) ==
    /\ environ \in {EmptyDict, [LOG_BUCKET |-> LogBucket]}
    /\ clock = 0
    /\ inventory \in invs
    /\ s3objects = [o \in {} |-> <<>>]
    /\ calls = [p \in Procs |-> <<>>]
    /\ pc = [p \in Procs |-> "line11"]
    /\ bucket = [p \in Procs |-> ""]
    /\ reservations = [p \in Procs |-> <<>>]
    /\ ts = [p \in Procs |-> <<>>]
    /\ pos = [p \in Procs |-> <<1, 1>>]
    /\ lines = [p \in Procs |-> <<>>]
    /\ body = [p \in Procs |-> <<>>]
    /\ key = [p \in Procs |-> <<>>]
    /\ retval = [p \in Procs |-> <<>>]
    /\ exc = [p \in Procs |-> ""]

Init == Start(Inventories)

InitOne == Start(Responses)

\* an exception leaves lambda_handler: nothing catches it
Raise(p, e) ==
    /\ pc' = [pc EXCEPT ![p] = "raised"]
    /\ exc' = [exc EXCEPT ![p] = e]

\* mutant of GetBucket: os.environ.get("LOG_BUCKET", "default-bucket")
GetBucketDefault(p) ==
    /\ pc[p] = "line11"
    /\ bucket' = [bucket EXCEPT ![p] = Get(environ, "LOG_BUCKET", "default-bucket")]
    /\ pc' = [pc EXCEPT ![p] = "line14"]
    /\ UNCHANGED <<environ, clock, inventory, s3objects, calls, reservations,
                   ts, pos, lines, body, key, retval, exc>>

\* line 11: bucket = os.environ["LOG_BUCKET"]
GetBucket(p) ==
    /\ pc[p] = "line11"
    /\ \/ /\ "LOG_BUCKET" \in DOMAIN environ
          /\ bucket' = [bucket EXCEPT ![p] = environ["LOG_BUCKET"]]
          /\ pc' = [pc EXCEPT ![p] = "line14"]
          /\ UNCHANGED exc
       \/ /\ "LOG_BUCKET" \notin DOMAIN environ
          /\ Raise(p, KeyError)
          /\ UNCHANGED bucket
    /\ UNCHANGED <<environ, clock, inventory, s3objects, calls, reservations,
                   ts, pos, lines, body, key, retval>>

\* mutant of DescribeInstances: the error is noted and the handler goes on
\* with an empty listing
DescribeInstancesThenWrite(p) ==
    /\ pc[p] = "line14"
    /\ calls' = [calls EXCEPT ![p] = Append(@, "describe_instances")]
    /\ pc' = [pc EXCEPT ![p] = "line17"]
    /\ \/ /\ reservations' = [reservations EXCEPT ![p] = Get(inventory, "Reservations", <<>>)]
          /\ UNCHANGED exc
       \/ /\ exc' = [exc EXCEPT ![p] = DescribeError]
          /\ UNCHANGED reservations
    /\ UNCHANGED <<environ, clock, inventory, s3objects, bucket,
                   ts, pos, lines, body, key, retval>>

\* lines 14-15: resp = ec2.describe_instances(); reservations = resp.get(...)
DescribeInstances(p) ==
    /\ pc[p] = "line14"
    /\ calls' = [calls EXCEPT ![p] = Append(@, "describe_instances")]
    /\ \/ /\ reservations' = [reservations EXCEPT ![p] = Get(inventory, "Reservations", <<>>)]
          /\ pc' = [pc EXCEPT ![p] = "line17"]
          /\ UNCHANGED exc
       \/ /\ Raise(p, DescribeError)
          /\ UNCHANGED reservations
    /\ UNCHANGED <<environ, clock, inventory, s3objects, bucket,
                   ts, pos, lines, body, key, retval>>

\* lines 17-18: ts = datetime.now(timezone.utc).strftime(...); lines = []
CaptureTimestamp(p) ==
    /\ pc[p] = "line17"
    /\ ts' = [ts EXCEPT ![p] = Strftime(UtcNow(clock))]
    /\ lines' = [lines EXCEPT ![p] = <<>>]
    /\ pos' = [pos EXCEPT ![p] = <<1, 1>>]
    /\ pc' = [pc EXCEPT ![p] = "line19"]
    /\ UNCHANGED <<environ, clock, inventory, s3objects, calls, bucket,
                   reservations, body, key, retval, exc>>

RECURSIVE Seek(_, _, _)
\* the next <<reservation, instance>> the two loops of lines 19-20 visit from
\* <<r, i>> on; r is past the last reservation when the loops are over
Seek(rs, r, i) ==
    IF r > Len(rs) THEN <<r, 1>>
    ELSE IF i <= Len(Get(rs[r], "Instances", <<>>)) THEN <<r, i>>
    ELSE Seek(rs, r + 1, 1)

\* lines 21-22: inst["InstanceId"] and inst["State"]["Name"] raise no KeyError
WellFormed(inst) ==
    /\ "InstanceId" \in DOMAIN inst
    /\ "State" \in DOMAIN inst
    /\ "Name" \in DOMAIN inst.State

\* mutant of FormatLine: f"{ts} - {state} - {iid}"
FormatLineSwapped(t, iid, state) == t \o Sep \o state \o Sep \o iid

\* line 23: f"{ts} - {iid} - {state}"
FormatLine(t, iid, state) == t \o Sep \o iid \o Sep \o state

\* lines 19-23: one pass of the inner loop
AppendLine(p) ==
    /\ pc[p] = "line19"
    /\ LET at == Seek(reservations[p], pos[p][1], pos[p][2])
       IN  /\ at[1] <= Len(reservations[p])
           /\ LET inst == reservations[p][at[1]].Instances[at[2]]
              IN  \/ /\ WellFormed(inst)
                     /\ lines' = [lines EXCEPT ![p] =
                                    Append(@, FormatLine(ts[p], inst.InstanceId, inst.State.Name))]
                     /\ pos' = [pos EXCEPT ![p] = <<at[1], at[2] + 1>>]
                     /\ UNCHANGED <<pc, exc>>
                  \/ /\ ~WellFormed(inst)
                     /\ Raise(p, KeyError)
                     /\ UNCHANGED <<lines, pos>>
    /\ UNCHANGED <<environ, clock, inventory, s3objects, calls, bucket,
                   reservations, ts, body, key, retval>>

\* line 26: f"{ts} - no instances found"
Sentinel(t) == t \o Sep \o NoInstances

\* mutant of BuildBody: lines 25-26 left out
BuildBodyNoSentinel(p) ==
    /\ pc[p] = "line19"
    /\ Seek(reservations[p], pos[p][1], pos[p][2])[1] > Len(reservations[p])
    /\ body' = [body EXCEPT ![p] = EncodeUtf8(Join(Newline, lines[p]))]
    /\ pc' = [pc EXCEPT ![p] = "line29"]
    /\ UNCHANGED <<environ, clock, inventory, s3objects, calls, bucket,
                   reservations, ts, pos, lines, key, retval, exc>>

\* lines 25-28: the loops are over; the sentinel, then the body
BuildBody(p) ==
    /\ pc[p] = "line19"
    /\ Seek(reservations[p], pos[p][1], pos[p][2])[1] > Len(reservations[p])
    /\ LET ls == IF lines[p] = <<>> THEN <<Sentinel(ts[p])>> ELSE lines[p]
       IN  /\ lines' = [lines EXCEPT ![p] = ls]
           /\ body' = [body EXCEPT ![p] = EncodeUtf8(Join(Newline, ls))]
    /\ pc' = [pc EXCEPT ![p] = "line29"]
    /\ UNCHANGED <<environ, clock, inventory, s3objects, calls, bucket,
                   reservations, ts, pos, key, retval, exc>>

\* mutant of ObjectKey: one object a day, f"logs/ec2_status_{ts[:10]}.txt"
ObjectKeyDate(t) == KeyPrefix \o SubSeq(t, 1, 10) \o KeySuffix

\* line 29: f"logs/ec2_status_{ts}.txt"
ObjectKey(t) == KeyPrefix \o t \o KeySuffix

\* mutant of S3Put: an existing object is appended to
S3PutAppend(store, b, k, data) ==
    [o \in DOMAIN store \cup {<<b, k>>} |->
       IF o # <<b, k>> THEN store[o]
       ELSE IF o \in DOMAIN store THEN store[o] \o data ELSE data]

\* the store after put_object(Bucket=b, Key=k, Body=data): the object at
\* <<b, k>> is replaced, every other object is left alone
S3Put(store, b, k, data) ==
    [o \in DOMAIN store \cup {<<b, k>>} |-> IF o = <<b, k>> THEN data ELSE store[o]]

\* mutant of PutObject: the write may go out while the loops still run
PutObjectEarly(p) ==
    /\ pc[p] \in {"line19", "line29"}
    /\ calls' = [calls EXCEPT ![p] = Append(@, "put_object")]
    /\ key' = [key EXCEPT ![p] = ObjectKey(ts[p])]
    /\ \/ /\ s3objects' = S3Put(s3objects, bucket[p], ObjectKey(ts[p]), body[p])
          /\ pc' = [pc EXCEPT ![p] = "line31"]
          /\ UNCHANGED exc
       \/ /\ Raise(p, PutError)
          /\ UNCHANGED s3objects
    /\ UNCHANGED <<environ, clock, inventory, bucket, reservations,
                   ts, pos, lines, body, retval>>

\* mutant of PutObject: a failed write is noted and tried again
PutObjectRetry(p) ==
    /\ pc[p] = "line29"
    /\ calls' = [calls EXCEPT ![p] = Append(@, "put_object")]
    /\ key' = [key EXCEPT ![p] = ObjectKey(ts[p])]
    /\ \/ /\ s3objects' = S3Put(s3objects, bucket[p], ObjectKey(ts[p]), body[p])
          /\ pc' = [pc EXCEPT ![p] = "line31"]
          /\ UNCHANGED exc
       \/ /\ Len(calls[p]) < 3
          /\ exc' = [exc EXCEPT ![p] = PutError]
          /\ UNCHANGED <<s3objects, pc>>
    /\ UNCHANGED <<environ, clock, inventory, bucket, reservations,
                   ts, pos, lines, body, retval>>

\* line 29: s3.put_object(Bucket=bucket, Key=..., Body=body)
PutObject(p) ==
    /\ pc[p] = "line29"
    /\ calls' = [calls EXCEPT ![p] = Append(@, "put_object")]
    /\ key' = [key EXCEPT ![p] = ObjectKey(ts[p])]
    /\ \/ /\ s3objects' = S3Put(s3objects, bucket[p], ObjectKey(ts[p]), body[p])
          /\ pc' = [pc EXCEPT ![p] = "line31"]
          /\ UNCHANGED exc
       \/ /\ Raise(p, PutError)
          /\ UNCHANGED s3objects
    /\ UNCHANGED <<environ, clock, inventory, bucket, reservations,
                   ts, pos, lines, body, retval>>

\* mutant of Return: the instances are counted, not the lines
ReturnInstanceCount(p) ==
    /\ pc[p] = "line31"
    /\ retval' = [retval EXCEPT ![p] = <<[count |-> Len(Flatten(reservations[p]))]>>]
    /\ pc' = [pc EXCEPT ![p] = "returned"]
    /\ UNCHANGED <<environ, clock, inventory, s3objects, calls, exc, locals>>

\* line 31: return {"count": len(lines)}
Return(p) ==
    /\ pc[p] = "line31"
    /\ retval' = [retval EXCEPT ![p] = <<[count |-> Len(lines[p])]>>]
    /\ pc' = [pc EXCEPT ![p] = "returned"]
    /\ UNCHANGED <<environ, clock, inventory, s3objects, calls, exc, locals>>

\* time passes
Tick ==
    /\ clock < MaxClock
    /\ clock' = clock + 1
    /\ UNCHANGED <<environ, inventory, s3objects, calls, pc, retval, exc, locals>>

\* a running instance of the account stops
InstanceStops ==
    /\ \E iid \in {Id1, Id2} :
          /\ StopInstance(inventory, iid) # inventory
          /\ inventory' = StopInstance(inventory, iid)
    /\ UNCHANGED <<environ, clock, s3objects, calls, pc, retval, exc, locals>>

Next ==
    \/ \E p \in Procs : GetBucket(p)
    \/ \E p \in Procs : DescribeInstances(p)
    \/ \E p \in Procs : CaptureTimestamp(p)
    \/ \E p \in Procs : AppendLine(p)
    \/ \E p \in Procs : BuildBody(p)
    \/ \E p \in Procs : PutObject(p)
    \/ \E p \in Procs : Return(p)
    \/ Tick
    \/ InstanceStops

Spec == Init /\ [][Next]_vars

\* one invocation, on its own
NextOne ==
    \/ GetBucket(1)
    \/ DescribeInstances(1)
    \/ CaptureTimestamp(1)
    \/ AppendLine(1)
    \/ BuildBody(1)
    \/ PutObject(1)
    \/ Return(1)
    \/ Tick
    \/ InstanceStops

SpecOne == InitOne /\ [][NextOne]_vars

(* ------------------------ reading a stored report ---------------------- *)

\* the character of a code point below 128
Chr(b) ==
    IF b \in 48..57 THEN Digits[b - 47]
    ELSE IF b \in 97..122 THEN Lower[b - 96]
    ELSE CASE b = 10 -> "\n"
           [] b = 32 -> " "
           [] b = 45 -> "-"
           [] b = 46 -> "."
           [] b = 47 -> "/"
           [] b = 58 -> ":"
           [] b = 84 -> "T"
           [] b = 90 -> "Z"
           [] b = 95 -> "_"

\* bytes.decode("utf-8")
DecodeUtf8(bs) == [i \in 1..Len(bs) |-> Chr(bs[i])]

\* s.split("\n"): the pieces between one newline and the next
SplitLines(s) ==
    LET nl == {i \in 1..Len(s) : s[i] = "\n"}
        cut(k) == CHOOSE i \in nl : Cardinality({j \in nl : j < i}) = k - 1
        from(k) == IF k = 1 THEN 1 ELSE cut(k - 1) + 1
        to(k) == IF k = Cardinality(nl) + 1 THEN Len(s) ELSE cut(k) - 1
    IN  [k \in 1..(Cardinality(nl) + 1) |-> SubSeq(s, from(k), to(k))]

StartsWith(s, prefix) ==
    Len(s) >= Len(prefix) /\ SubSeq(s, 1, Len(prefix)) = prefix

Called(p, op) == \E i \in 1..Len(calls[p]) : calls[p][i] = op

CountCalls(p, op) == Cardinality({i \in 1..Len(calls[p]) : calls[p][i] = op})

\* put_object has returned to invocation p
Wrote(p) == pc[p] \in {"line31", "returned"}

\* the lines of the object at the key invocation p wrote
StoredReport(p) == SplitLines(DecodeUtf8(s3objects[<<bucket[p], key[p]>>]))

\* the lines of the body invocation p handed to put_object
WrittenReport(p) == SplitLines(DecodeUtf8(body[p]))

\* the instance descriptors invocation p was given, in listing order
Listed(p) == Flatten(reservations[p])

SameSecond(a, b) ==
    \A f \in {"year", "month", "day", "hour", "minute", "second"} : a[f] = b[f]

(* ------------------------------- claims -------------------------------- *)

\* C1: when the flattened listing has N > 0 instances, the report a
\* successful invocation stores has exactly N lines, the i-th being
\* "{ts} - {instance id} - {state}" of the i-th listed instance, with the one
\* captured timestamp on every line.
ReportLinePerInstance ==
    \A p \in Procs :
        (Wrote(p) /\ Listed(p) # <<>>) =>
            LET stored == StoredReport(p)
                listed == Listed(p)
            IN  /\ Len(stored) = Len(listed)
                /\ \A i \in 1..Len(listed) :
                      stored[i] =
                          ts[p] \o <<" ", "-", " ">> \o listed[i].InstanceId
                                \o <<" ", "-", " ">> \o listed[i].State.Name

\* an invocation returned after listing two reservations of one instance
ReportLinePerInstanceWitness ==
    \E p \in Procs :
        /\ pc[p] = "returned"
        /\ Len(reservations[p]) = 2
        /\ Len(Get(reservations[p][1], "Instances", <<>>)) = 1
        /\ Len(Listed(p)) = 2
        /\ Listed(p)[1].State.Name # Listed(p)[2].State.Name

\* C2: when the flattened listing is empty, the stored report is the one line
\* "{ts} - no instances found", the count returned is 1, and no stored report
\* is empty.
SentinelWhenEmpty ==
    \A p \in Procs :
        Wrote(p) =>
            /\ s3objects[<<bucket[p], key[p]>>] # <<>>
            /\ Listed(p) = <<>> =>
                  /\ StoredReport(p) = <<ts[p] \o <<" ", "-", " ">> \o NoInstances>>
                  /\ pc[p] = "returned" => retval[p] = <<[count |-> 1]>>

\* an invocation returned after listing reservations that hold no instance
SentinelWhenEmptyWitness ==
    \E p \in Procs :
        /\ pc[p] = "returned"
        /\ Len(reservations[p]) = 2
        /\ Listed(p) = <<>>

\* C3: without LOG_BUCKET an invocation fails with neither describe_instances
\* nor put_object called and nothing returned.
NoCallWithoutBucket ==
    \A p \in Procs :
        "LOG_BUCKET" \notin DOMAIN environ =>
            /\ calls[p] = <<>>
            /\ retval[p] = <<>>
            /\ pc[p] \in {"line11", "raised"}
            /\ pc[p] = "raised" => exc[p] = KeyError
            /\ DOMAIN s3objects = {}

\* every invocation has failed for want of LOG_BUCKET
NoCallWithoutBucketWitness ==
    /\ "LOG_BUCKET" \notin DOMAIN environ
    /\ \A p \in Procs : pc[p] = "raised"

\* C4: an invocation whose describe_instances call failed has ended with that
\* error, has not called put_object, has returned nothing, and no object of
\* the store is its own: every object was put by an invocation whose listing
\* succeeded.
NoWriteAfterDescribeError ==
    /\ \A p \in Procs :
          exc[p] = DescribeError =>
              /\ pc[p] = "raised"
              /\ calls[p] = <<"describe_instances">>
              /\ retval[p] = <<>>
              /\ body[p] = <<>>
    /\ \A o \in DOMAIN s3objects :
          \E q \in Procs : exc[q] # DescribeError /\ Wrote(q) /\ o = <<bucket[q], key[q]>>

\* one invocation failed in describe_instances while another stored its report
NoWriteAfterDescribeErrorWitness ==
    \E p, q \in Procs :
        /\ exc[p] = DescribeError
        /\ pc[q] = "returned"
        /\ DOMAIN s3objects = {<<bucket[q], key[q]>>}

\* C5: an invocation calls put_object at most once, and only after
\* describe_instances has returned and every listed instance has its line in
\* the encoded body; an invocation that returns has called it exactly once.
OneWriteAfterListing ==
    \A p \in Procs :
        /\ CountCalls(p, "put_object") <= 1
        /\ Called(p, "put_object") =>
              /\ calls[p] = <<"describe_instances", "put_object">>
              /\ Seek(reservations[p], pos[p][1], pos[p][2])[1] > Len(reservations[p])
              /\ Len(lines[p]) = IF Listed(p) = <<>> THEN 1 ELSE Len(Listed(p))
              /\ WrittenReport(p) = lines[p]
        /\ pc[p] = "returned" => CountCalls(p, "put_object") = 1

\* an invocation returned after writing a report of two lines
OneWriteAfterListingWitness ==
    \E p \in Procs :
        /\ pc[p] = "returned"
        /\ calls[p] = <<"describe_instances", "put_object">>
        /\ Len(lines[p]) = 2

\* C6: the count returned equals the number of lines of the stored body, and
\* is at least 1.
CountIsLinesWritten ==
    \A p \in Procs :
        /\ retval[p] # <<>> <=> pc[p] = "returned"
        /\ pc[p] = "returned" =>
              /\ retval[p] = <<[count |-> Len(StoredReport(p))]>>
              /\ retval[p][1].count >= 1

\* an invocation that listed two reservations returned a count of 2
CountIsLinesWrittenWitness ==
    \E p \in Procs :
        /\ pc[p] = "returned"
        /\ retval[p][1].count = 2
        /\ Len(reservations[p]) = 2

\* the two invocations were given the same listing in the same second
SameInput(p, q) == ts[p] = ts[q] /\ reservations[p] = reservations[q]

\* C7 (the bodies): two invocations given the same listing in the same second
\* call put_object with the same bucket, key and body.
SameInputSameObject ==
    \A p, q \in Procs :
        (Called(p, "put_object") /\ Called(q, "put_object") /\ SameInput(p, q)) =>
            /\ bucket[p] = bucket[q]
            /\ key[p] = key[q]
            /\ body[p] = body[q]

\* C7 (the store): when the store holds what invocation p wrote, the write of
\* an invocation q given the same listing in the same second leaves the whole
\* store as it was.
SecondWriteChangesNothing ==
    \A p, q \in Procs :
        ( /\ p # q
          /\ Wrote(p)
          /\ s3objects[<<bucket[p], key[p]>>] = body[p]
          /\ pc[q] = "line29"
          /\ pc'[q] = "line31"
          /\ SameInput(p, q) ) => s3objects' = s3objects

\* C7: idempotence of the stored artifact.
IdempotentWrite == []SameInputSameObject /\ [][SecondWriteChangesNothing]_vars

\* two invocations, given the same listing of two instances in the same
\* second, have both returned
IdempotentWriteWitness ==
    \E p, q \in Procs :
        /\ p # q
        /\ pc[p] = "returned"
        /\ pc[q] = "returned"
        /\ SameInput(p, q)
        /\ Len(Listed(p)) = 2
        /\ DOMAIN s3objects = {<<bucket[p], key[p]>>}

\* C8: the key written is "logs/ec2_status_{ts}.txt" for the one timestamp,
\* the format of an instant the clock has shown, that starts every line
\* formatted so far and every line of the body written under that key, and
\* the key holds no ":".
KeyFromCapturedTimestamp ==
    \A p \in Procs :
        /\ \A i \in 1..Len(lines[p]) : StartsWith(lines[p][i], ts[p] \o <<" ", "-", " ">>)
        /\ Called(p, "put_object") =>
              /\ key[p] = <<"l", "o", "g", "s", "/", "e", "c", "2", "_", "s", "t",
                            "a", "t", "u", "s", "_">> \o ts[p] \o <<".", "t", "x", "t">>
              /\ \A i \in 1..Len(key[p]) : key[p][i] # ":"
              /\ LET written == WrittenReport(p)
                 IN  \A i \in 1..Len(written) :
                        StartsWith(written[i], ts[p] \o <<" ", "-", " ">>)
              /\ \E c \in 0..clock : ts[p] = Strftime(UtcNow(c))

\* an invocation wrote two lines under its key, and the clock has since
\* reached another second
KeyFromCapturedTimestampWitness ==
    \E p \in Procs :
        /\ pc[p] = "returned"
        /\ Len(lines[p]) = 2
        /\ ts[p] # Strftime(UtcNow(clock))

\* C9: the present instant and an earlier one of another second give
\* different keys; invocations with
\* different timestamps wrote different keys; and the object at an
\* invocation's key is the body of an invocation of the same second, so its
\* own body when no other invocation of that second wrote.
DifferentSecondsNoConflict ==
    /\ LET keyNow == ObjectKey(Strftime(UtcNow(clock)))
       IN  \A c \in 0..clock :
              ~SameSecond(UtcNow(c), UtcNow(clock)) =>
                  ObjectKey(Strftime(UtcNow(c))) # keyNow
    /\ \A p, q \in Procs :
          (Called(p, "put_object") /\ Called(q, "put_object") /\ ts[p] # ts[q]) =>
              key[p] # key[q]
    /\ \A p \in Procs :
          Wrote(p) =>
              /\ \E r \in Procs :
                    Wrote(r) /\ ts[r] = ts[p] /\ s3objects[<<bucket[p], key[p]>>] = body[r]
              /\ (\A q \in Procs \ {p} : Wrote(q) => ts[q] # ts[p]) =>
                    s3objects[<<bucket[p], key[p]>>] = body[p]

\* two invocations of different seconds have both returned, and the store
\* holds the report of each
DifferentSecondsNoConflictWitness ==
    \E p, q \in Procs :
        /\ pc[p] = "returned"
        /\ pc[q] = "returned"
        /\ ts[p] # ts[q]
        /\ s3objects[<<bucket[p], key[p]>>] = body[p]
        /\ s3objects[<<bucket[q], key[q]>>] = body[q]

\* C10: an invocation whose put_object call failed has ended with that error,
\* has called put_object once, after describe_instances and before nothing
\* else, and has returned nothing.
NoRetryAfterPutError ==
    \A p \in Procs :
        exc[p] = PutError =>
            /\ pc[p] = "raised"
            /\ calls[p] = <<"describe_instances", "put_object">>
            /\ retval[p] = <<>>

\* an invocation failed in put_object and its object is not in the store
NoRetryAfterPutErrorWitness ==
    \E p \in Procs :
        /\ exc[p] = PutError
        /\ <<bucket[p], key[p]>> \notin DOMAIN s3objects

=============================================================================
